---- MODULE Spec2Model ----
(***************************************************************************)
(* A model of the recipe sync pipeline (sync_recipes.py) and of the manual *)
(* import route (app.py).                                                  *)
(*                                                                         *)
(* Strings are sequences of tokens: a token is a word, a separator or a    *)
(* blank.  URLs are records of the parts urlparse gives.                    *)
(***************************************************************************)
EXTENDS Integers, Sequences, FiniteSets, Bags, TLC

\* ------------------------------------------------------------------ bounds
\* Messages in the mailbox listing.
MaxMsgs == 2
\* Sync runs in one behaviour.
MaxRuns == 2
\* Tokens in a text of a fetched page (og:title, h1, title).
MaxLen == 2
\* Anchors in an email body or on a landing page, where they are enumerated.
MaxAnchors == 3

\* ------------------------------------------------------------------ state
VARIABLES
    mailbox,      \* the messages the mailbox query lists, with their bodies
    down,         \* the URLs whose requests fail now
    store,        \* the recipes table
    pc,           \* where the current sync run stands
    creds,        \* whether the current run found mailbox credentials
    connOpen,     \* whether the current run's store connection is open
    listed,       \* whether the current run has listed the messages
    messages,     \* the ids the listing gave the current run
    idx,          \* the loop over messages
    recipes,      \* the tuples of the message at idx
    tidx,         \* the loop over recipes
    inserted,     \* rows the current run inserted (cursor.rowcount = 1)
    err,          \* the exception that ended the current run
    runs,         \* sync runs started
    lastSaved,    \* the last save_recipe call of a sync run
    sameWebRuns,  \* runs started since the web last changed
    prevDone,     \* whether the run before the current one ran to its end
    impResult,    \* what the last import request answered
    arg,          \* the input of a function applied on its own
    ret           \* its result

vars ==
    <<mailbox, down, store, pc, creds, connOpen, listed, messages, idx, recipes,
      tidx, inserted, err, runs, lastSaved, sameWebRuns, prevDone, impResult, arg, ret>>

runVars == <<pc, creds, connOpen, listed, messages, idx, recipes, tidx, inserted, err>>

\* ------------------------------------------------------------------ strings
Range(s) == {s[i] : i \in 1..Len(s)}

SeqsUpTo(S, n) == UNION {[1..k -> S] : k \in 0..n}

\* str.strip() / get_text(strip=True): blanks removed at both ends.
RECURSIVE LStrip(_, _)
LStrip(s, ws) == IF s # <<>> /\ Head(s) \in ws THEN LStrip(Tail(s), ws) ELSE s

RECURSIVE RStrip(_, _)
RStrip(s, ws) ==
    IF s # <<>> /\ s[Len(s)] \in ws THEN RStrip(SubSeq(s, 1, Len(s) - 1), ws) ELSE s

Strip(s) == RStrip(LStrip(s, {" "}), {" "})

\* str.split(sep)[0]: the part before the first occurrence of sep.
RECURSIVE SplitFirst(_, _)
SplitFirst(s, sep) ==
    IF s = <<>> \/ Head(s) = sep THEN <<>>
    ELSE <<Head(s)>> \o SplitFirst(Tail(s), sep)

\* str.split(sep)[-1]: the part after the last occurrence of sep.
RECURSIVE SplitLast(_, _)
SplitLast(s, sep) ==
    IF s = <<>> THEN <<>>
    ELSE IF s[Len(s)] = sep THEN <<>>
    ELSE SplitLast(SubSeq(s, 1, Len(s) - 1), sep) \o <<s[Len(s)]>>

\* Tokens of s that are not in drop, in order (str.replace(x, '')).
RECURSIVE Without(_, _)
Without(s, drop) ==
    IF s = <<>> THEN <<>>
    ELSE (IF Head(s) \in drop THEN <<>> ELSE <<Head(s)>>) \o Without(Tail(s), drop)

\* html.unescape, on tokens: the entity token becomes the character.
UnescapeTok(t) == IF t = "&amp;" THEN "&" ELSE t

HtmlUnescape(s) == [i \in 1..Len(s) |-> UnescapeTok(s[i])]

\* An optional text: Python's None against a str.
Absent == [present |-> FALSE, val |-> <<>>]

Some(s) == [present |-> TRUE, val |-> s]


\* ------------------------------------------------------------------ pages
\* What the HTML parser finds on a page: the og:title content attribute,
\* the first h1's text, the title element's text, and the anchors.
WebPage(og, h1, title, anchors) ==
    [og |-> og, h1 |-> h1, title |-> title, anchors |-> anchors]

NoPage == WebPage(Absent, Absent, Absent, <<>>)

\* A response of the web to a GET: a page, or a failure (timeout, non-2xx,
\* connection error).
\* A response carries the URL the request ended at (requests' resp.url).
Ok(final, page) == [ok |-> TRUE, url |-> final, page |-> page]

Fail(url) == [ok |-> FALSE, url |-> url, page |-> NoPage]

\* ------------------------------------------------------------------ title fetcher
\* A call's outcome: a value, None, or an exception that propagates.
Ret(v) == [kind |-> "ok", val |-> v]

RetNone == [kind |-> "none", val |-> <<>>]

Raise(e) == [kind |-> "raise", val |-> <<e>>]

\* fetch_page_html with the except clause missing: the failure propagates.
FetchPageHtmlRaising(w, url) ==
    IF url \in DOMAIN w /\ w[url].ok THEN Ret(w[url].page)
    ELSE Raise("RequestException")

\* fetch_page_html: any failure of the GET is caught and None returned.
FetchPageHtml(w, url) ==
    IF url \in DOMAIN w /\ w[url].ok THEN Ret(w[url].page) ELSE RetNone

\* The separators of the title branch, in the order the loop tries them.
\* The middle one stands for the three-character string the source file
\* holds where an em-dash was meant: it is not the em-dash token.
Separators == <<"|", "a-euro-quote", "-">>

\* The loop over the separators: split at the first separator of the list
\* that occurs in the title, then stop.
RECURSIVE SplitAtSeparator(_, _)
SplitAtSeparator(title, seps) ==
    IF seps = <<>> THEN title
    ELSE IF Head(seps) \in Range(title) THEN Strip(SplitFirst(title, Head(seps)))
    ELSE SplitAtSeparator(title, Tail(seps))

\* Line 242: inside fetch_recipe_title the name html is the local str that
\* holds the page text, not the module, so html.unescape raises.
LocalHtmlUnescape(title) == Raise("AttributeError")

\* The title branch, lines 236-242.
TitleBranch(page) ==
    LocalHtmlUnescape(SplitAtSeparator(Strip(page.title.val), Separators))

\* The parsed page's title, lines 223-244.
TitleOfPage(page) ==
    IF page.og.present /\ page.og.val # <<>> THEN Ret(Strip(page.og.val))
    ELSE IF page.h1.present /\ Strip(page.h1.val) # <<>> THEN Ret(Strip(page.h1.val))
    ELSE IF page.title.present /\ Strip(page.title.val) # <<>> THEN TitleBranch(page)
    ELSE RetNone

\* fetch_recipe_title(url), against the web w.
FetchRecipeTitle(w, url) ==
    LET html == FetchPageHtml(w, url)
    IN  IF html.kind = "raise" THEN html
        ELSE IF html.kind = "none" THEN RetNone
        ELSE TitleOfPage(html.val)

\* ------------------------------------------------------------------ URLs
\* A URL as urlparse splits it.  The query holds the q parameter (a URL, in
\* a sequence of at most one) and whatever else it has.  A reference with an
\* empty netloc is relative to the page that holds it.
NoQuery == [q |-> <<>>, other |-> ""]

Url(scheme, netloc, path, query) ==
    [scheme |-> scheme, netloc |-> netloc, path |-> path, query |-> query]

\* Whether a is a substring of token b, on the vocabulary of the model.
Sub(a, b) ==
    \/ a = b
    \/ a = "skinnytaste.com" /\ b = "www.skinnytaste.com"
    \/ a = "thelostkitchen" /\ b = "findthelostkitchen.com"
    \/ a = "findthelostkitchen" /\ b = "findthelostkitchen.com"
    \/ a = "google.com" /\ b = "www.google.com"
    \/ a = "recipe" /\ b = "recipes"

\* str.lower(), on the vocabulary of the model.
LowerTok(t) ==
    CASE t = "GET" -> "get"
      [] t = "THE" -> "the"
      [] t = "RECIPE" -> "recipe"
      [] t = "Read" -> "read"
      [] t = "More" -> "more"
      [] OTHER -> t

Lower(s) == [i \in 1..Len(s) |-> LowerTok(s[i])]

\* pat in s, for a pattern of one or more words.
TextHas(pat, s) ==
    \E i \in 0..(Len(s) - Len(pat)) :
        /\ \A j \in 1..(Len(pat) - 1) : s[i + j] = pat[j]
        /\ Sub(pat[Len(pat)], s[i + Len(pat)])

\* The tokens of the URL's string, the q parameter's target included.
UrlTokens(u) ==
    {u.netloc, u.query.other} \cup Range(u.path)
        \cup UNION {{t.netloc} \cup Range(t.path) : t \in Range(u.query.q)}

\* unwrap_redirect, lines 187-197.
UnwrapRedirect(href) ==
    IF Sub("google.com", href.netloc) /\ href.path = <<"/", "url">>
          /\ href.query.q # <<>>
    THEN href.query.q[1]
    ELSE href

\* extract_homepage_from_url, lines 200-203: scheme://netloc.
ExtractHomepageFromUrl(url) == Url(url.scheme, url.netloc, <<>>, NoQuery)

\* str.capitalize(), on the vocabulary of the model.
Capitalize(t) ==
    CASE t = "easy" -> "Easy"
      [] t = "tacos" -> "Tacos"
      [] t = "pie" -> "Pie"
      [] t = "recipes" -> "Recipes"
      [] t = "very+good" -> "Very+good"
      [] t = "track" -> "Track"
      [] t = "click" -> "Click"
      [] OTHER -> t

\* ' '.join(word.capitalize() for word in title.split()): the blanks of s
\* separate words; runs of blanks and blanks at the ends vanish.
RECURSIVE JoinCapitalized(_, _)
JoinCapitalized(s, first) ==
    IF s = <<>> THEN <<>>
    ELSE IF Head(s) = " " THEN JoinCapitalized(Tail(s), first)
    ELSE (IF first THEN <<>> ELSE <<" ">>) \o <<Capitalize(Head(s))>>
            \o JoinCapitalized(Tail(s), FALSE)


\* extract_title_from_url, lines 247-266.
ExtractTitleFromUrl(url) ==
    LET stripped == RStrip(LStrip(url.path, {"/"}), {"/"})
        segment == IF "/" \in Range(stripped) THEN SplitLast(stripped, "/")
                   ELSE stripped
        noext == Without(segment, {".html", ".htm"})
        spaced == [i \in 1..Len(noext) |->
                      IF noext[i] \in {"-", "_"} THEN " " ELSE noext[i]]
    IN  JoinCapitalized(spaced, TRUE)

\* urljoin(base, href) for an absolute URL or an absolute-path reference.
UrlJoin(base, ref) ==
    IF ref.netloc # "" THEN ref
    ELSE Url(base.scheme, base.netloc, ref.path, ref.query)

\* The order-preserving deduplication loops (seen set, first occurrence kept).
RECURSIVE DedupeFrom(_, _)
DedupeFrom(s, seen) ==
    IF s = <<>> THEN <<>>
    ELSE IF Head(s) \in seen THEN DedupeFrom(Tail(s), seen)
    ELSE <<Head(s)>> \o DedupeFrom(Tail(s), seen \cup {Head(s)})

\* The deduplication through a set whose order differs from one call to the
\* next.
DedupeSetOrder(s) ==
    LET unique == DedupeFrom(s, {})
    IN  IF pc = "first" THEN [i \in 1..Len(unique) |-> unique[Len(unique) + 1 - i]]
        ELSE unique

Dedupe(s) == DedupeFrom(s, {})

\* The concatenation of F(s[1]), F(s[2]), ...: a loop that appends.
RECURSIVE FlatMap(_, _)
FlatMap(F(_), s) == IF s = <<>> THEN <<>> ELSE F(Head(s)) \o FlatMap(F, Tail(s))

\* ------------------------------------------------------------------ providers
\* An anchor of an email body or of a page: its text and its href.
Anchor(text, href) == [text |-> text, href |-> href]

SkinnytasteDomains == {"skinnytaste.us", "skinnytaste.com"}

LostKitchenDomains == {"thelostkitchen", "findthelostkitchen"}

Domains(provider) ==
    IF provider = "skinnytaste" THEN SkinnytasteDomains ELSE LostKitchenDomains

\* RecipeProvider.matches_domain, lines 288-291.
MatchesDomain(provider, url) ==
    \E d \in Domains(provider) : \E t \in UrlTokens(url) : Sub(d, t)

\* pat in path, for a one-word pattern.
PathHas(pat, path) == \E t \in Range(path) : Sub(pat, t)

\* The call-to-action phrases of SkinnytasteProvider, lines 347-352.
SkinnytastePatterns ==
    {<<"get", "the", "recipe">>, <<"get", "recipe">>, <<"view", "recipe">>,
     <<"read", "more">>}

\* SkinnytasteProvider._follow_redirect, lines 368-389: the final URL without
\* query, fragment and trailing slashes, or nothing when the request fails.
FollowRedirect(w, url) ==
    IF url \in DOMAIN w /\ w[url].ok
    THEN LET final == w[url].url
         IN  <<Url(final.scheme, final.netloc, RStrip(final.path, {"/"}), NoQuery)>>
    ELSE <<>>

\* One pass of the loop of SkinnytasteProvider.extract_links_from_email,
\* lines 332-356.
SkinnytasteAnchorLinks(w, a) ==
    LET text == Lower(a.text)
        href == UnwrapRedirect(a.href)
        path == Lower(href.path)
    IN  IF ~MatchesDomain("skinnytaste", href) THEN <<>>
        ELSE IF PathHas("preferences", path) \/ PathHas("unsubscribe", path)
                  \/ PathHas("account", path) THEN <<>>
        ELSE IF \E pat \in SkinnytastePatterns : TextHas(pat, text)
             THEN FollowRedirect(w, href)
        ELSE <<>>

\* The pass with lines 427-432 missing: every anchor of the domain is a link.
LostKitchenAnchorLinksUnfiltered(a) ==
    LET href == UnwrapRedirect(a.href)
    IN  IF ~MatchesDomain("the_lost_kitchen", href) THEN <<>> ELSE <<href>>

\* One pass of the loop of TheLostKitchenProvider.extract_links_from_email,
\* lines 417-433.
LostKitchenAnchorLinks(a) ==
    LET href == UnwrapRedirect(a.href)
        path == Lower(href.path)
        text == Lower(a.text)
    IN  IF ~MatchesDomain("the_lost_kitchen", href) THEN <<>>
        ELSE IF PathHas("unsubscribe", path) \/ PathHas("account", path) THEN <<>>
        ELSE IF PathHas("recipe", path) \/ PathHas("recipes", path)
                  \/ TextHas(<<"recipe">>, text) \/ PathHas("very+good", path)
             THEN <<href>>
        ELSE <<>>

\* extract_links_from_email of either provider, lines 324-366 and 410-443.
ExtractLinksFromEmail(provider, body, w) ==
    IF provider = "skinnytaste"
    THEN LET F(a) == SkinnytasteAnchorLinks(w, a) IN Dedupe(FlatMap(F, body))
    ELSE Dedupe(FlatMap(LostKitchenAnchorLinks, body))

\* One pass of the loop of TheLostKitchenProvider.resolve_to_recipe_pages,
\* lines 458-468.
LandingAnchorLinks(url, a) ==
    LET text == Lower(a.text)
    IN  IF TextHas(<<"everyday", "shop">>, text) THEN <<>>
        ELSE IF TextHas(<<"get">>, text) /\ TextHas(<<"recipe">>, text)
             THEN <<UrlJoin(url, a.href)>>
        ELSE <<>>

\* The links a landing page yields, before the count is looked at.
DetectedLinks(url, page) ==
    LET F(a) == LandingAnchorLinks(url, a) IN FlatMap(F, page.anchors)

\* The landing-page rule with the duplicates left in.
LandingPairsNoDedupe(url, page) ==
    LET links == DetectedLinks(url, page)
    IN  IF Len(links) >= 2 THEN [i \in 1..Len(links) |-> <<url, links[i]>>]
        ELSE <<<<url, url>>>>

\* Lines 470-483: deduplicate, then two or more links make a landing page.
LandingPairs(url, page) ==
    LET unique == Dedupe(DetectedLinks(url, page))
    IN  IF Len(unique) >= 2 THEN [i \in 1..Len(unique) |-> <<url, unique[i]>>]
        ELSE <<<<url, url>>>>

\* resolve_to_recipe_pages of either provider, lines 391-396 and 445-483.
ResolveToRecipePages(provider, url, w) ==
    IF provider = "skinnytaste" THEN <<<<url, url>>>>
    ELSE LET html == FetchPageHtml(w, url)
         IN  IF html.kind # "ok" THEN <<<<url, url>>>>
             ELSE LandingPairs(url, html.val)

\* ------------------------------------------------------------------ registry
\* The providers in the order lines 536-538 register them.
Providers == <<"skinnytaste", "the_lost_kitchen">>

\* ProviderRegistry.get_provider_for_url, lines 500-505: the first provider
\* that matches, in a sequence of at most one.
GetProviderForUrl(url) ==
    LET hits == SelectSeq(Providers, LAMBDA p : MatchesDomain(p, url))
    IN  IF hits = <<>> THEN <<>> ELSE <<Head(hits)>>

Tuple(provider, parent, recipe) ==
    [provider |-> provider, parent_url |-> parent, recipe_url |-> recipe]

\* Lines 514-522: every provider's candidates, each resolved, in order.
AllResults(body, w) ==
    LET OfProvider(p) ==
            LET OfLink(link) ==
                    LET resolved == ResolveToRecipePages(p, link, w)
                    IN  [i \in 1..Len(resolved) |->
                            Tuple(p, resolved[i][1], resolved[i][2])]
            IN  FlatMap(OfLink, ExtractLinksFromEmail(p, body, w))
    IN  FlatMap(OfProvider, Providers)

\* Lines 524-530: the first tuple of each recipe_url is kept.
RECURSIVE DedupeByRecipeUrl(_, _)
DedupeByRecipeUrl(results, seen) ==
    IF results = <<>> THEN <<>>
    ELSE IF Head(results).recipe_url \in seen
         THEN DedupeByRecipeUrl(Tail(results), seen)
    ELSE <<Head(results)>>
            \o DedupeByRecipeUrl(Tail(results), seen \cup {Head(results).recipe_url})

\* The deduplication keeping the last tuple of each recipe_url.
RECURSIVE DedupeKeepLast(_)
DedupeKeepLast(results) ==
    IF results = <<>> THEN <<>>
    ELSE IF \E i \in 2..Len(results) : results[i].recipe_url = Head(results).recipe_url
         THEN DedupeKeepLast(Tail(results))
    ELSE <<Head(results)>> \o DedupeKeepLast(Tail(results))

UniqueResultsKeepLast(results) == DedupeKeepLast(results)

UniqueResults(results) == DedupeByRecipeUrl(results, {})

\* ProviderRegistry.extract_all_recipes_from_email, lines 507-532.
ExtractAllRecipesFromEmail(body, w) == UniqueResults(AllResults(body, w))

\* ------------------------------------------------------------------ the world
\* The URLs of the model.
TrackUrl ==
    Url("https", "skinnytaste.us", <<"/", "track", "/", "click">>,
        [q |-> <<>>, other |-> "u=1"])

TacosFinalUrl ==
    Url("https", "www.skinnytaste.com", <<"/", "easy", "-", "tacos", "/">>,
        [q |-> <<>>, other |-> "utm_source=mc"])

TacosUrl == Url("https", "www.skinnytaste.com", <<"/", "easy", "-", "tacos">>, NoQuery)

LandingUrl == Url("https", "findthelostkitchen.com", <<"/", "very+good">>, NoQuery)

PieUrl == Url("https", "findthelostkitchen.com", <<"/", "recipes", "/", "pie">>, NoQuery)

HomeUrl == Url("https", "findthelostkitchen.com", <<"/">>, NoQuery)

BlogUrl == Url("https", "example.com", <<"/", "pie", ".html">>, NoQuery)

FtpUrl == Url("ftp", "example.com", <<"/", "pie">>, NoQuery)

\* A URL both providers' domain lists match.
CrossUrl ==
    Url("https", "findthelostkitchen.com", <<"/", "recipes", "/", "skinnytaste.com">>,
        NoQuery)

WrappedTrackUrl ==
    Url("https", "www.google.com", <<"/", "url">>, [q |-> <<TrackUrl>>, other |-> ""])

Ref(path) == Url("", "", path, NoQuery)

\* The anchors a landing page may hold.
PieCta == Anchor(<<"GET", "THE", "RECIPE">>, Ref(<<"/", "recipes", "/", "pie">>))

HomeCta == Anchor(<<"get", "the", "recipe">>, Ref(<<"/">>))

TacosCta == Anchor(<<"get", "recipe">>, TacosUrl)

ShopLink == Anchor(<<"everyday", "shop", "get", "recipe">>, Ref(<<"/", "shop">>))

AboutLink == Anchor(<<"about">>, Ref(<<"/", "about">>))

PageAnchors == {PieCta, HomeCta, TacosCta, ShopLink, AboutLink}

\* What each URL of the model serves while it is up.
PageAt(u) ==
    CASE u = TrackUrl -> Ok(TacosFinalUrl, NoPage)
      [] u = TacosUrl ->
            Ok(u, WebPage(Absent, Absent, Some(<<"Tacos", " ", "|", " ", "Skinnytaste">>),
                          <<>>))
      [] u = LandingUrl ->
            Ok(u, WebPage(Some(<<"Very", " ", "Good">>), Absent, Absent,
                          <<PieCta, ShopLink, HomeCta, PieCta>>))
      [] u = PieUrl ->
            Ok(u, WebPage(Some(<<" ", "Best", " ", "Pie", " ">>), Some(<<"Pie">>),
                          Some(<<"Pie", " ", "-", " ", "Lost">>), <<PieCta>>))
      [] u = CrossUrl -> Ok(u, WebPage(Absent, Some(<<"Pie">>), Absent, <<>>))
      [] u = HomeUrl -> Ok(u, WebPage(Some(<<>>), Some(<<" ", "Home">>), Absent, <<>>))
      [] OTHER -> Fail(u)

\* The URLs that answer at all.
FetchUrls == {TrackUrl, TacosUrl, LandingUrl, PieUrl, HomeUrl, CrossUrl}

\* The pages that go down and come back, one at a time.
FlakyUrls == {TacosUrl, LandingUrl, PieUrl, HomeUrl}

Outages == {{}} \cup {{u} : u \in FlakyUrls}

\* The web while the URLs of d fail.
Web(d) == [u \in FetchUrls |-> IF u \in d THEN Fail(u) ELSE PageAt(u)]

\* The anchors an email body may hold.
SkinnyAnchor == Anchor(<<"GET", "THE", "RECIPE">>, TrackUrl)

WrappedAnchor == Anchor(<<"Read", "More">>, WrappedTrackUrl)

LandingAnchor == Anchor(<<"this", "week's", "recipes">>, LandingUrl)

PieAnchor == Anchor(<<"pie">>, PieUrl)

UnsubscribeAnchor ==
    Anchor(<<"unsubscribe">>,
           Url("https", "findthelostkitchen.com", <<"/", "account", "/", "unsubscribe">>,
               NoQuery))

CrossAnchor == Anchor(<<"view", "recipe">>, CrossUrl)

EmailAnchors ==
    {SkinnyAnchor, WrappedAnchor, LandingAnchor, PieAnchor, UnsubscribeAnchor, CrossAnchor}

\* The bodies of the messages of a mailbox.
MailBodies == {<<UnsubscribeAnchor>>, <<WrappedAnchor>>, <<LandingAnchor>>}

MailSubject == <<"News", "&amp;", "recipes">>

Message(i, body) == [id |-> ToString(i), subject |-> MailSubject, body |-> body]

Mailboxes ==
    UNION {{[i \in 1..k |-> Message(i, b[i])] : b \in [1..k -> MailBodies]} : k \in 0..MaxMsgs}

\* ------------------------------------------------------------------ the store
\* A row of the recipes table; parent_url is a sequence of at most one URL.
\* The table is the bag of its rows: the id column, which numbers the rows in
\* the order of their insertion, and the created_at column, the clock's
\* reading at the insert, are left out.
Row(email_id, source, title, url, parent, homepage) ==
    [email_id |-> email_id, source |-> source, title |-> title, url |-> url,
     parent_url |-> parent, homepage |-> homepage]

\* UNIQUE(email_id, url), lines 47 of sync_recipes.py and 48 of app.py.
Conflicts(table, row) ==
    \E r \in BagToSet(table) : r.email_id = row.email_id /\ r.url = row.url

\* The INSERT without the OR IGNORE and without the constraint.
InsertAlways(table, row) == table (+) SetToBag({row})

\* INSERT OR IGNORE, lines 72-76.
InsertOrIgnore(table, row) ==
    IF Conflicts(table, row) THEN table ELSE table (+) SetToBag({row})

\* save_recipe with INSERT OR REPLACE: the new row takes the place of the row
\* that holds its (email_id, url).
SaveRecipeReplace(table, email_id, source, title, url, parent, homepage) ==
    [r \in {x \in BagToSet(table) : ~(x.email_id = email_id /\ x.url = url)} |-> table[r]]
        (+) SetToBag({Row(email_id, source, HtmlUnescape(title), url, parent, homepage)})

\* save_recipe, lines 64-83: the title is unescaped, the row inserted unless
\* its (email_id, url) is there.
SaveRecipe(table, email_id, source, title, url, parent, homepage) ==
    InsertOrIgnore(table, Row(email_id, source, HtmlUnescape(title), url, parent,
                              homepage))

\* ------------------------------------------------------------------ runs
NoSave ==
    [called |-> FALSE, email_id |-> "", url |-> HomeUrl, title |-> <<>>, from |-> "",
     multi |-> FALSE, fetched |-> RetNone, rowcount |-> 0]

\* Rows earlier runs and imports may have left.
SeedRows ==
    {Row("1", <<"the_lost_kitchen">>, <<"Old", " ", "Pie">>, PieUrl, <<LandingUrl>>,
         ExtractHomepageFromUrl(PieUrl))}

\* The tables the seed rows make under the table's UNIQUE constraint.
SeedStores == {SetToBag(rows) : rows \in SUBSET SeedRows}

Idle ==
    /\ pc = "idle" /\ creds = FALSE /\ connOpen = FALSE /\ listed = FALSE
    /\ messages = <<>> /\ idx = 0 /\ recipes = <<>> /\ tidx = 0
    /\ inserted = 0 /\ err = "" /\ runs = 0 /\ lastSaved = NoSave
    /\ sameWebRuns = 0 /\ prevDone = FALSE /\ impResult = ""

Init ==
    /\ mailbox \in Mailboxes
    /\ down \in Outages
    /\ store \in SeedStores
    /\ Idle
    /\ arg = <<>> /\ ret = <<>>

\* ------------------------------------------------------------------ sync_recipes
\* get_gmail_creds with line 104-105 missing: no credentials, no exception.
GetGmailCredsUnchecked(present) == Ret(<<>>)

\* get_gmail_creds, lines 90-117: no token file and no token variable raise.
GetGmailCreds(present) == IF present THEN Ret(<<>>) ELSE Raise("RuntimeError")

\* find_recipe_messages, lines 126-134: the ids the query lists.
FindRecipeMessages(box) == [i \in 1..Len(box) |-> box[i].id]

\* The message of an id.
MessageOf(id) == CHOOSE m \in Range(mailbox) : m.id = id

\* The title chain with the subject tried before the URL.
ChooseTitleSubjectFirst(multi, fetched, url, subject) ==
    IF fetched.kind = "ok" /\ fetched.val # <<>>
    THEN [text |-> fetched.val, from |-> "page"]
    ELSE IF subject # <<>> THEN [text |-> subject, from |-> "subject"]
    ELSE [text |-> ExtractTitleFromUrl(url), from |-> "url"]

\* The title chain, lines 576-592: the page's title, else the title the URL
\* gives, else the subject, on both branches.
ChooseTitle(multi, fetched, url, subject) ==
    IF fetched.kind = "ok" /\ fetched.val # <<>>
    THEN [text |-> fetched.val, from |-> "page"]
    ELSE IF ExtractTitleFromUrl(url) # <<>>
         THEN [text |-> ExtractTitleFromUrl(url), from |-> "url"]
    ELSE [text |-> subject, from |-> "subject"]

\* Lines 547-556: credentials, connection, listing; an empty listing returns.
SyncStart ==
    /\ pc \in {"idle", "done", "aborted"}
    /\ runs < MaxRuns
    /\ runs' = runs + 1
    /\ sameWebRuns' = sameWebRuns + 1
    /\ prevDone' = (pc = "done")
    /\ \E present \in BOOLEAN :
        /\ creds' = present
        /\ IF GetGmailCreds(present).kind = "raise"
           THEN /\ pc' = "aborted"
                /\ err' = "RuntimeError"
                /\ connOpen' = FALSE
                /\ listed' = FALSE
                /\ messages' = <<>>
                /\ idx' = 0
           ELSE /\ connOpen' = TRUE
                /\ listed' = TRUE
                /\ messages' = FindRecipeMessages(mailbox)
                /\ err' = ""
                /\ IF FindRecipeMessages(mailbox) = <<>>
                   THEN pc' = "done" /\ idx' = 0
                   ELSE pc' = "msg" /\ idx' = 1
    /\ recipes' = <<>>
    /\ tidx' = 0
    /\ inserted' = 0
    /\ lastSaved' = NoSave
    /\ UNCHANGED <<mailbox, down, store, impResult, arg, ret>>

\* Lines 558-572: the message's metadata and body are fetched, its recipes
\* extracted.  A failure of either mailbox call is an exception nothing catches.
SyncMessage ==
    /\ pc = "msg"
    /\ idx <= Len(messages)
    /\ \E mailOk \in BOOLEAN :
        IF ~mailOk
        THEN /\ pc' = "aborted"
             /\ err' = "HttpError"
             /\ UNCHANGED <<idx, recipes, tidx>>
        ELSE LET found == ExtractAllRecipesFromEmail(MessageOf(messages[idx]).body,
                                                     Web(down))
             IN  /\ err' = err
                 /\ IF found = <<>>
                    THEN /\ pc' = "msg"
                         /\ idx' = idx + 1
                         /\ recipes' = <<>>
                         /\ tidx' = 0
                    ELSE /\ pc' = "tuple"
                         /\ idx' = idx
                         /\ recipes' = found
                         /\ tidx' = 1
    /\ UNCHANGED <<mailbox, down, store, creds, connOpen, listed, messages, inserted,
                   runs, lastSaved, sameWebRuns, prevDone, impResult, arg, ret>>

\* Lines 574-607: one tuple's title and its row.
SyncTuple ==
    /\ pc = "tuple"
    /\ LET t == recipes[tidx]
           m == MessageOf(messages[idx])
           multi == Len(recipes) > 1
           fetched == FetchRecipeTitle(Web(down), t.recipe_url)
           title == ChooseTitle(multi, fetched, t.recipe_url, m.subject)
           parent == IF t.parent_url # t.recipe_url THEN <<t.parent_url>> ELSE <<>>
           saved == SaveRecipe(store, m.id, <<t.provider>>, title.text, t.recipe_url,
                               parent, ExtractHomepageFromUrl(t.recipe_url))
       IN  IF fetched.kind = "raise"
           THEN /\ pc' = "aborted"
                /\ err' = fetched.val[1]
                /\ UNCHANGED <<store, idx, recipes, tidx, inserted, lastSaved>>
           ELSE /\ store' = saved
                /\ inserted' = inserted + (BagCardinality(saved) - BagCardinality(store))
                /\ lastSaved' =
                      [called |-> TRUE, email_id |-> m.id, url |-> t.recipe_url,
                       title |-> HtmlUnescape(title.text), from |-> title.from,
                       multi |-> multi, fetched |-> fetched,
                       rowcount |-> BagCardinality(saved) - BagCardinality(store)]
                /\ err' = err
                /\ IF tidx < Len(recipes)
                   THEN /\ tidx' = tidx + 1
                        /\ UNCHANGED <<pc, idx, recipes>>
                   ELSE /\ pc' = "msg"
                        /\ idx' = idx + 1
                        /\ recipes' = <<>>
                        /\ tidx' = 0
    /\ UNCHANGED <<mailbox, down, creds, connOpen, listed, messages, runs, sameWebRuns,
                   prevDone, impResult, arg, ret>>

\* Lines 609-610: after the last message the connection is closed.
SyncFinish ==
    /\ pc = "msg"
    /\ idx > Len(messages)
    /\ pc' = "done"
    /\ connOpen' = FALSE
    /\ UNCHANGED <<mailbox, down, store, creds, listed, messages, idx, recipes, tidx,
                   inserted, err, runs, lastSaved, sameWebRuns, prevDone, impResult,
                   arg, ret>>

SyncNext == SyncStart \/ SyncMessage \/ SyncTuple \/ SyncFinish

\* ------------------------------------------------------------------ import_recipe
EmptyUrl == Url("", "", <<>>, NoQuery)

\* The form's url and custom_source fields.
ImportUrls == {PieUrl, BlogUrl, FtpUrl, EmptyUrl}

CustomSources == {<<>>}

\* custom_source.lower().replace(" ", "_"), line 160.
SourceName(custom) ==
    [i \in 1..Len(custom) |->
        IF custom[i] = " " THEN "_"
        ELSE IF custom[i] = "My" THEN "my"
        ELSE IF custom[i] = "Blog" THEN "blog"
        ELSE custom[i]]

\* The title of an imported recipe, lines 166-174.
ImportTitle(fetched, url) ==
    IF fetched.kind = "ok" /\ fetched.val # <<>> THEN fetched.val
    ELSE IF ExtractTitleFromUrl(url) # <<>> THEN ExtractTitleFromUrl(url)
    ELSE <<"Imported", " ", "Recipe">>

\* The INSERT of the import with no constraint to violate.
ImportInsertUnchecked(table, row) ==
    [table |-> table (+) SetToBag({row}), result |-> "imported"]

\* Lines 180-193: a plain INSERT; the UNIQUE constraint raises IntegrityError.
ImportInsert(table, row) ==
    IF Conflicts(table, row) THEN [table |-> table, result |-> "exists"]
    ELSE [table |-> table (+) SetToBag({row}), result |-> "imported"]

\* import_recipe on a POST, lines 140-196.
ImportRecipe ==
    /\ \E url \in ImportUrls, custom \in CustomSources :
        LET provider == GetProviderForUrl(url)
            source == IF provider # <<>> THEN provider ELSE SourceName(custom)
            fetched == FetchRecipeTitle(Web(down), url)
            row == Row("manual_import", source, ImportTitle(fetched, url), url, <<>>,
                       ExtractHomepageFromUrl(url))
            done == ImportInsert(store, row)
        IN  IF url = EmptyUrl
            THEN impResult' = "no_url" /\ store' = store
            ELSE IF url.scheme \notin {"http", "https"}
            THEN impResult' = "invalid_url" /\ store' = store
            ELSE IF provider = <<>> /\ custom = <<>>
            THEN impResult' = "no_source" /\ store' = store
            ELSE IF fetched.kind = "raise"
            THEN impResult' = "server_error" /\ store' = store
            ELSE impResult' = done.result /\ store' = done.table
    /\ UNCHANGED <<mailbox, down, runVars, runs, lastSaved, sameWebRuns, prevDone, arg, ret>>

\* ------------------------------------------------------------------ the web
\* A page goes down or comes back, between two runs: a run sees the web as
\* it is when the run starts.
WebChange ==
    /\ pc \in {"idle", "done", "aborted"}
    /\ \E u \in FlakyUrls : down' = IF u \in down THEN down \ {u} ELSE down \cup {u}
    /\ down' \in Outages
    /\ sameWebRuns' = 0
    /\ UNCHANGED <<mailbox, store, runVars, runs, lastSaved, prevDone, impResult, arg, ret>>

Next == SyncNext \/ ImportRecipe \/ WebChange

\* The whole program: the sync runs, the import route, the web around them.
Spec == Init /\ [][Next]_vars

\* The sync runs against the web.
NextSync == SyncNext \/ WebChange

SpecSync == Init /\ [][NextSync]_vars

\* The sync runs and the import route on the one store.
NextApp == SyncNext \/ ImportRecipe

SpecApp == Init /\ [][NextApp]_vars

\* ------------------------------------------------------------------ functions on their own
\* fetch_recipe_title on every page of up to MaxLen tokens a text.
TitleAlphabet == {"Pie", " ", "|", "-"}

OptTexts(n) == {Absent} \cup {Some(t) : t \in SeqsUpTo(TitleAlphabet, n)}

TitleResponses(n) ==
    {Fail(HomeUrl)}
        \cup {Ok(HomeUrl, WebPage(og, h1, ti, <<>>)) :
                og \in OptTexts(n), h1 \in OptTexts(n), ti \in OptTexts(n)}

InitTitle ==
    /\ arg \in TitleResponses(MaxLen)
    /\ ret = RetNone
    /\ mailbox = <<>> /\ down = {} /\ store = EmptyBag
    /\ Idle

TitleCall ==
    /\ pc = "idle"
    /\ pc' = "returned"
    /\ ret' = FetchRecipeTitle([u \in {HomeUrl} |-> arg], HomeUrl)
    /\ UNCHANGED <<mailbox, down, store, creds, connOpen, listed, messages, idx, recipes,
                   tidx, inserted, err, runs, lastSaved, sameWebRuns, prevDone, impResult, arg>>

SpecTitle == InitTitle /\ [][TitleCall]_vars

\* resolve_to_recipe_pages on every landing page of up to MaxAnchors anchors.
ResolveResponses(n) ==
    {Fail(LandingUrl)}
        \cup {Ok(LandingUrl, WebPage(Absent, Absent, Absent, anchors)) :
                anchors \in SeqsUpTo(PageAnchors, n)}

InitResolve ==
    /\ arg \in [provider : Range(Providers), url : {LandingUrl}, resp : ResolveResponses(MaxAnchors)]
    /\ ret = <<>>
    /\ mailbox = <<>> /\ down = {} /\ store = EmptyBag
    /\ Idle

ResolveCall ==
    /\ pc = "idle"
    /\ pc' = "returned"
    /\ ret' = ResolveToRecipePages(arg.provider, arg.url, [u \in {arg.url} |-> arg.resp])
    /\ UNCHANGED <<mailbox, down, store, creds, connOpen, listed, messages, idx, recipes,
                   tidx, inserted, err, runs, lastSaved, sameWebRuns, prevDone, impResult, arg>>

SpecResolve == InitResolve /\ [][ResolveCall]_vars

\* extract_all_recipes_from_email on every body of up to MaxAnchors anchors,
\* whichever of the pages it asks for are down.
InitExtract ==
    /\ arg \in [body : SeqsUpTo(EmailAnchors, MaxAnchors),
                 down : SUBSET {TrackUrl, LandingUrl, PieUrl}]
    /\ ret = <<>>
    /\ mailbox = <<>> /\ down = {} /\ store = EmptyBag
    /\ Idle

ExtractCall ==
    /\ pc = "idle"
    /\ pc' = "returned"
    /\ ret' = ExtractAllRecipesFromEmail(arg.body, Web(arg.down))
    /\ UNCHANGED <<mailbox, down, store, creds, connOpen, listed, messages, idx, recipes,
                   tidx, inserted, err, runs, lastSaved, sameWebRuns, prevDone, impResult, arg>>

SpecExtract == InitExtract /\ [][ExtractCall]_vars

\* extract_all_recipes_from_email twice on one body, the web free to change
\* between the two calls.
InitRepeat ==
    /\ arg \in [body : SeqsUpTo(EmailAnchors, MaxAnchors)]
    /\ down \in SUBSET {TrackUrl, LandingUrl}
    /\ ret = <<>>
    /\ mailbox = <<>> /\ store = EmptyBag
    /\ Idle

ExtractFirst ==
    /\ pc = "idle"
    /\ pc' = "first"
    /\ recipes' = ExtractAllRecipesFromEmail(arg.body, Web(down))
    /\ sameWebRuns' = 1
    /\ UNCHANGED <<mailbox, down, store, creds, connOpen, listed, messages, idx, tidx,
                   inserted, err, runs, lastSaved, prevDone, impResult, arg, ret>>

RepeatWebChange ==
    /\ pc = "first"
    /\ \E u \in {TrackUrl, LandingUrl} :
          down' = IF u \in down THEN down \ {u} ELSE down \cup {u}
    /\ sameWebRuns' = 0
    /\ UNCHANGED <<mailbox, store, runVars, runs, lastSaved, prevDone, impResult, arg, ret>>

ExtractSecond ==
    /\ pc = "first"
    /\ pc' = "returned"
    /\ ret' = ExtractAllRecipesFromEmail(arg.body, Web(down))
    /\ sameWebRuns' = sameWebRuns + 1
    /\ UNCHANGED <<mailbox, down, store, creds, connOpen, listed, messages, idx, recipes,
                   tidx, inserted, err, runs, lastSaved, prevDone, impResult, arg>>

SpecRepeat == InitRepeat /\ [][ExtractFirst \/ RepeatWebChange \/ ExtractSecond]_vars

\* ------------------------------------------------------------------ claims
\* The rows of a key in the table.
CopiesOfKey(table, email_id, url) ==
    BagCardinality([r \in {x \in BagToSet(table) : x.email_id = email_id /\ x.url = url}
                       |-> table[r]])

\* C1, as stated: when two sync runs in a row both run to their end against
\* the same mailbox, the second run inserts no record.
C1_SecondRunInsertsNothing == (pc = "done" /\ prevDone) => inserted = 0

\* C1, amended: when two sync runs in a row both run to their end against the
\* same mailbox and the web answers the same in both, the second run inserts
\* no record.
C1_SecondRunSameWebInsertsNothing ==
    (pc = "done" /\ prevDone /\ sameWebRuns >= 2) => inserted = 0

\* A second run that ended after every save of its last message was ignored.
C1_Witness ==
    /\ pc = "done" /\ prevDone /\ sameWebRuns >= 2
    /\ lastSaved.called /\ lastSaved.rowcount = 0
    /\ inserted = 0

\* C2: no two rows of the table share their (email_id, url), whatever sync
\* runs and imports came before.
C2_UniqueKey ==
    \A r \in BagToSet(store) : CopiesOfKey(store, r.email_id, r.url) = 1

\* An import was refused as a duplicate and a sync run's save was ignored.
C2_Witness ==
    /\ impResult = "exists"
    /\ lastSaved.called /\ lastSaved.rowcount = 0
    /\ BagCardinality(store) >= 2

\* C3, as stated: a tuple of a message with more than one tuple never gets
\* the message's subject as its title.
C3_NeverSubject == (lastSaved.called /\ lastSaved.multi) => lastSaved.from # "subject"

\* C3, amended: a tuple of a message with more than one tuple gets the title
\* of its own page; when the page gives none (the fetch failed or the page
\* has no title) the title its own URL gives; and the subject only when the
\* URL gives an empty title too.
C3_SubjectOnlyLast ==
    (lastSaved.called /\ lastSaved.multi) =>
        LET pageTitle == lastSaved.fetched.kind = "ok" /\ lastSaved.fetched.val # <<>>
            urlTitle == ExtractTitleFromUrl(lastSaved.url)
        IN  /\ pageTitle => lastSaved.title = HtmlUnescape(lastSaved.fetched.val)
            /\ (~pageTitle /\ urlTitle # <<>>) => lastSaved.title = HtmlUnescape(urlTitle)
            /\ (~pageTitle /\ urlTitle = <<>>) => lastSaved.title = HtmlUnescape(MailSubject)
            /\ lastSaved.title = HtmlUnescape(MailSubject) => (~pageTitle /\ urlTitle = <<>>)

\* A tuple of a multi-recipe message whose page fetch failed and whose title
\* came from its URL.
C3_Witness ==
    /\ lastSaved.called /\ lastSaved.multi
    /\ lastSaved.fetched.kind = "none"
    /\ lastSaved.url \in down
    /\ lastSaved.from = "url"
    /\ lastSaved.title = HtmlUnescape(ExtractTitleFromUrl(lastSaved.url))

\* The first of the page's three candidates that has text, and whether the
\* title element is the one.
C4_FirstText(page) ==
    IF page.og.present /\ Strip(page.og.val) # <<>> THEN Ret(Strip(page.og.val))
    ELSE IF page.h1.present /\ Strip(page.h1.val) # <<>> THEN Ret(Strip(page.h1.val))
    ELSE IF page.title.present /\ Strip(page.title.val) # <<>> THEN Ret(<<"title">>)
    ELSE RetNone

\* C4: for a page that was fetched, fetch_recipe_title returns the first
\* non-empty text among the trimmed og:title, the trimmed first h1 and the
\* title element; an empty candidate is skipped; None only when none has text.
C4_PriorityOrder ==
    (pc = "returned" /\ arg.ok) =>
        LET want == C4_FirstText(arg.page)
        IN  IF want = Ret(<<"title">>) THEN ret.kind = "ok" /\ ret.val # <<>>
            ELSE ret = want

\* The text before the first separator of a title.
RECURSIVE C5_BeforeSeparator(_)
C5_BeforeSeparator(t) ==
    IF t = <<>> \/ Head(t) \in Range(Separators) THEN <<>>
    ELSE <<Head(t)>> \o C5_BeforeSeparator(Tail(t))

\* C5: for a fetched page with no og:title and no h1 and a title element
\* with text, fetch_recipe_title returns the title cut at its first
\* separator, trimmed, its entities decoded.
C5_TitleTruncated ==
    (pc = "returned" /\ arg.ok /\ ~arg.page.og.present /\ ~arg.page.h1.present
        /\ arg.page.title.present /\ Strip(arg.page.title.val) # <<>>) =>
        ret = Ret(HtmlUnescape(Strip(C5_BeforeSeparator(Strip(arg.page.title.val)))))

\* Whether the GET of a URL fails now.
C6_Fails(u) == u \notin DOMAIN Web(down) \/ ~Web(down)[u].ok

\* C6: a page fetch that fails never ends the run.  When the fetch of a
\* tuple's page fails, the step for that tuple does not abort: the title
\* comes from the next steps of the chain, the tuple's row is in the table
\* after the step, and the run moves on to the next tuple or message.  When
\* the fetch of a landing-page candidate fails, the message's tuples hold the
\* candidate as its own recipe page.  No run ends on a request's exception.
C6_FetchFailureRecovered ==
    [][/\ (pc = "tuple" /\ C6_Fails(recipes[tidx].recipe_url)) =>
            /\ pc' # "aborted"
            /\ lastSaved'.called
            /\ lastSaved'.url = recipes[tidx].recipe_url
            /\ lastSaved'.fetched = RetNone
            /\ lastSaved'.title \in
                  {HtmlUnescape(ExtractTitleFromUrl(recipes[tidx].recipe_url)),
                   HtmlUnescape(MailSubject)}
            /\ CopiesOfKey(store', messages[idx], recipes[tidx].recipe_url) = 1
            /\ IF tidx < Len(recipes)
               THEN pc' = "tuple" /\ tidx' = tidx + 1 /\ idx' = idx
               ELSE pc' = "msg" /\ idx' = idx + 1
       /\ (pc = "msg" /\ pc' = "tuple") =>
            \A a \in Range(MessageOf(messages[idx]).body) :
                \A c \in Range(LostKitchenAnchorLinks(a)) :
                    C6_Fails(c) =>
                        \E t \in Range(recipes') :
                            /\ t.recipe_url = c
                            /\ t.provider = "the_lost_kitchen" => t.parent_url = c
       /\ err' # "RequestException"]_vars

\* A run that ran to its end after the fetch of the landing page failed and
\* the page's own URL was saved as a recipe.
C6_Witness ==
    /\ pc = "done"
    /\ LandingUrl \in down
    /\ lastSaved.called /\ lastSaved.url = LandingUrl
    /\ lastSaved.fetched = RetNone
    /\ lastSaved.rowcount = 1

\* Whether an anchor of a landing page is a call-to-action recipe link.
C7_IsCta(a) ==
    /\ TextHas(<<"get">>, Lower(a.text))
    /\ TextHas(<<"recipe">>, Lower(a.text))
    /\ ~TextHas(<<"everyday", "shop">>, Lower(a.text))

\* The positions of the call-to-action links of the page resolved.
C7_Positions == {i \in 1..Len(arg.resp.page.anchors) : C7_IsCta(arg.resp.page.anchors[i])}

C7_Link(i) == UrlJoin(arg.url, arg.resp.page.anchors[i].href)

C7_Distinct == {C7_Link(i) : i \in C7_Positions}

\* Where a link first appears on the page.
C7_First(l) == CHOOSE i \in C7_Positions :
                   C7_Link(i) = l /\ \A j \in C7_Positions : C7_Link(j) = l => i <= j

\* C7: for a candidate the landing-page provider resolves and whose page is
\* fetched, two or more distinct call-to-action links give one pair per
\* distinct link, the candidate as its parent, in the order the links first
\* appear; fewer than two give the candidate paired with itself.
C7_LandingPairs ==
    (pc = "returned" /\ arg.provider = "the_lost_kitchen" /\ arg.resp.ok) =>
        IF Cardinality(C7_Distinct) >= 2
        THEN /\ Len(ret) = Cardinality(C7_Distinct)
             /\ \A k \in 1..Len(ret) : ret[k][1] = arg.url /\ ret[k][2] \in C7_Distinct
             /\ \A j, k \in 1..Len(ret) :
                    j < k => C7_First(ret[j][2]) < C7_First(ret[k][2])
        ELSE ret = <<<<arg.url, arg.url>>>>

\* A landing page resolved that repeats one of its two or more links.
C7_Witness ==
    /\ pc = "returned" /\ arg.provider = "the_lost_kitchen" /\ arg.resp.ok
    /\ Cardinality(C7_Distinct) >= 2
    /\ Cardinality(C7_Positions) > Cardinality(C7_Distinct)
    /\ Len(ret) = Cardinality(C7_Distinct)

\* Where a recipe URL first occurs among tuples.
C8_First(all, u) ==
    CHOOSE i \in 1..Len(all) :
        all[i].recipe_url = u /\ \A j \in 1..(i - 1) : all[j].recipe_url # u

\* C8: extract_all_recipes_from_email returns the providers' tuples, the
\* first registered provider's first, with one tuple per recipe_url: the
\* first one produced for it, in the order of those first ones.
C8_DedupeKeepsFirst ==
    pc = "returned" =>
        LET all == AllResults(arg.body, Web(arg.down))
            first == [k \in 1..Len(ret) |-> C8_First(all, ret[k].recipe_url)]
        IN  /\ \A j, k \in 1..Len(ret) : j < k => ret[j].recipe_url # ret[k].recipe_url
            /\ {ret[k].recipe_url : k \in 1..Len(ret)}
                  = {all[i].recipe_url : i \in 1..Len(all)}
            /\ \A k \in 1..Len(ret) : ret[k] = all[first[k]]
            /\ \A j, k \in 1..Len(ret) : j < k => first[j] < first[k]
            /\ \A i, j \in 1..Len(all) :
                  (all[i].provider = Providers[2] /\ all[j].provider = Providers[1])
                      => j < i

\* An extraction where both providers produced the same recipe URL and the
\* first provider's tuple was kept.
C8_Witness ==
    /\ pc = "returned"
    /\ Len(ret) >= 2
    /\ LET all == AllResults(arg.body, Web(arg.down))
       IN  \E i, j \in 1..Len(all) :
              /\ i < j
              /\ all[i].recipe_url = all[j].recipe_url
              /\ all[i].provider # all[j].provider
              /\ all[i] \in Range(ret)
              /\ all[j] \notin Range(ret)

\* C9: a run that finds no mailbox credentials aborts with an error, has
\* listed no message, holds no connection and has written no record.
C9_NoCredentialsAborts ==
    (pc # "idle" /\ ~creds) =>
        /\ pc = "aborted" /\ err = "RuntimeError"
        /\ ~listed /\ messages = <<>>
        /\ ~connOpen
        /\ inserted = 0 /\ ~lastSaved.called

\* A second run aborted for want of credentials, the first one having saved.
C9_Witness ==
    /\ pc = "aborted" /\ ~creds /\ err = "RuntimeError"
    /\ runs = 2 /\ BagCardinality(store) >= 1
    /\ ~listed /\ inserted = 0

\* C10: a failure of a message's metadata or body fetch does not end the
\* run: no run is aborted by the mailbox's error.
C10_MessageFailureNotFatal == ~(pc = "aborted" /\ err = "HttpError")

\* The body of the message the run stands at.
C11_Body == MessageOf(messages[idx]).body

\* C11: a message with no recipe anchor, and any message whose extraction
\* gives no tuple, is passed without a write: the step that handles it goes
\* to the next message and leaves the table as it was.  A run whose listing
\* is empty ends without an error and has written nothing.
C11_EmptyMessageSkipped ==
    [][/\ (pc = "msg" /\ idx <= Len(messages) /\ pc' # "aborted"
             /\ (C11_Body = <<UnsubscribeAnchor>>
                    \/ ExtractAllRecipesFromEmail(C11_Body, Web(down)) = <<>>)) =>
            /\ pc' = "msg" /\ idx' = idx + 1
            /\ store' = store /\ inserted' = inserted /\ lastSaved' = lastSaved
       /\ (pc' = "done" /\ listed' /\ messages' = <<>>) =>
            /\ err' = "" /\ inserted' = 0 /\ ~lastSaved'.called /\ store' = store]_vars

\* A run that passed a first message with no recipe anchor, saved a recipe
\* of the second message and ran to its end.
C11_Witness ==
    /\ pc = "done"
    /\ Len(mailbox) = 2 /\ mailbox[1].body = <<UnsubscribeAnchor>>
    /\ lastSaved.called /\ lastSaved.email_id = mailbox[2].id
    /\ inserted >= 1

C13_DuplicateSaveIsNoOp ==
    [][/\ (pc = "tuple" /\ pc' # "aborted"
             /\ CopiesOfKey(store, messages[idx], recipes[tidx].recipe_url) >= 1) =>
            /\ store' = store
            /\ inserted' = inserted
            /\ lastSaved'.called /\ lastSaved'.rowcount = 0
            /\ lastSaved'.url = recipes[tidx].recipe_url
            /\ IF tidx < Len(recipes)
               THEN pc' = "tuple" /\ tidx' = tidx + 1 /\ idx' = idx
               ELSE pc' = "msg" /\ idx' = idx + 1
       /\ \A r \in BagToSet(store) : CopiesIn(r, store') >= CopiesIn(r, store)]_vars

\* A run that saved a recipe whose key held a row with another title, kept
\* that row and stands at the message's next tuple.
C13_Witness ==
    /\ pc = "tuple" /\ tidx = 2
    /\ lastSaved.called /\ lastSaved.rowcount = 0
    /\ \E r \in BagToSet(store) :
          /\ r.email_id = lastSaved.email_id /\ r.url = lastSaved.url
          /\ r.title # lastSaved.title

\* C14: a run that ended without an error, after its last message or on an
\* empty listing, holds no open connection.
C14_SuccessClosesConnection == pc = "done" => ~connOpen

\* C15: an import adds no row for a URL the table holds, whichever of the
\* import route and the sync runs stored it: a step of the import route that
\* changes the table adds a row whose URL no row had.
C15_ImportRejectsStoredUrl ==
    [][(store' # store /\ UNCHANGED <<pc, lastSaved>>) =>
            \A r \in BagToSet(store') :
                CopiesIn(r, store') > CopiesIn(r, store) =>
                    ~\E q \in BagToSet(store) : q.url = r.url]_vars

====
